---- MODULE Spec2Model ----
(***************************************************************************)
(* Task orchestration and lifecycle of the Study4Me backend                *)
(* (src/backend/main.py, src/backend/utils/utils_async.py).                *)
(*                                                                         *)
(* One asyncio event loop runs the request handlers, the background units  *)
(* (process_with_tracking wrappers around process_*_background) and the    *)
(* lifespan teardown.  A step of the model is what one coroutine does      *)
(* between two suspension points.  A call that is made synchronously on    *)
(* the loop (DocumentConverter.convert, the OpenAI vision call, the        *)
(* transcript extraction) keeps the loop: while a unit is inside it only   *)
(* time passes.                                                            *)
(***************************************************************************)
EXTENDS Integers, Sequences, FiniteSets, TLC

\* ---- bounds of the model ----
MaxUnits == 3
MaxMixed == 2
MaxFiles == 2
MaxClock == 8
MaxSockets == 3

\* Restarts of the process.
MaxRestarts == 1

\* Study topics that requests name.
MaxTopics == 2

\* Push-channel subscribers that are connected while units run.
MaxWatchers == 2

\* ---- program constants ----
T1 == 5
T2 == 2

Units == 1..MaxUnits
Sockets == 1..MaxSockets
Kinds == {"upload", "webpage", "youtube", "query", "image"}
Topics == 1..MaxTopics

VARIABLES
    TASK_STATUS,       \* main.py:38   task_id -> "processing" | "done" | "failed" ("none": no entry)
    statusLog,         \* every value written to TASK_STATUS[task_id], in order
    BACKGROUND_TASKS,  \* main.py:47   handles of the tracked units
    SHUTDOWN_EVENT,    \* main.py:46
    task_result,       \* db_async.py:14  durable row status per task_id ("none": no row)
    unit,              \* per unit: the coroutine's inputs, position and history
    nextId,            \* next unused task id
    hooks,             \* per task: webhook POSTs attempted, and whether one failed
    pcSeq,             \* position of lifespan's teardown
    gathered,          \* children of the gather the teardown is awaiting
    live0,             \* BACKGROUND_TASKS as the teardown found it
    forced,            \* the teardown ran its TimeoutError handler
    clock,             \* time units since the teardown began
    deadline,          \* expiry of the wait_for in progress
    WEBSOCKET_CONNECTIONS,  \* main.py:42
    ws,                \* per connection: position of websocket_endpoint, peer dead
    bc,                \* the broadcast_to_websockets call in progress, or the last one
    got,               \* how often each connection was sent the current message
    events,            \* per connection: the task updates it was sent
    regAt,             \* per task: WEBSOCKET_CONNECTIONS at its terminal transition
    poll,              \* the GET /task-status request in progress
    resp,              \* the last answer of GET /task-status
    epoch,             \* how often the process was restarted
    finalized,         \* calls of rag.finalize_storages() in this process
    locks,             \* TASK_LOCK and WEBSOCKET_LOCK: held or not, and whether both ever were
    topic_rag_cache,   \* main.py:296  study_topic_id -> cached instance (0: no entry)
    lightrags,         \* per study topic: LightRAG(...) instances constructed so far
    topic_rag          \* per unit: position of its get_topic_rag call, and what it returned

coreVars == <<TASK_STATUS, statusLog, BACKGROUND_TASKS, SHUTDOWN_EVENT, task_result,
              unit, nextId, hooks, regAt, pcSeq, gathered, live0, forced, clock, deadline,
              finalized>>

wsVars == <<WEBSOCKET_CONNECTIONS, ws, bc, got, events>>

pollVars == <<poll, resp, epoch>>

ragVars == <<topic_rag_cache, lightrags, topic_rag>>

vars == <<coreVars, wsVars, pollVars, locks, ragVars>>

seqVars == <<pcSeq, gathered, live0, forced, clock, deadline, finalized>>

\* ---- the five operation kinds ----

\* process_uploaded_documents, process_image_background and
\* process_webpage_background end every except clause without raise.
Swallows(k) == k \in {"upload", "webpage", "image"}

\* process_query_background and process_youtube_background call save_task_result.
SavesResult(k) == k \in {"youtube", "query"}

\* The work call is made on the event loop itself (no await of a thread):
\* converter.convert, openai_client.chat.completions.create, get_youtube_transcript.
SyncWork(k) == k \in {"upload", "webpage", "image", "youtube"}

\* Suspension points inside "async with aiosqlite.connect" / "async with
\* httpx.AsyncClient": a CancelledError thrown there awaits the context's exit.
AsyncWithPcs == {"get_rag", "topic", "item", "save", "save_failed",
                 "early_save", "early_save_try", "notify", "notify_err", "early_notify"}

Idle == [kind |-> "none", cb |-> FALSE, pc |-> "idle", files |-> 0,
         cancel |-> FALSE, raised |-> FALSE, outcome |-> "none",
         saveRaised |-> FALSE]

NoHooks == [posts |-> 0, failed |-> FALSE]

Live(u) == unit[u].pc \notin {"idle", "finished", "removed"}

\* task.done()
TaskDone(u) == unit[u].pc \in {"finished", "removed"}

\* A unit is inside a synchronous call on the loop.
Blocked == \E u \in Units : unit[u].pc = "work" /\ SyncWork(unit[u].kind)

\* The message of send_debug_websocket_notification.
DebugMessage == [type |-> "debug", task_id |-> 0, status |-> "none"]

NoBroadcast == [active |-> FALSE, snap |-> {}, todo |-> {}, disconnected |-> {},
                raised |-> FALSE, msg |-> DebugMessage]

\* threading.Lock() twice (main.py:39, 43), both free.
\* A unit that has not called get_topic_rag; value 0 is None.
NoCall == [pc |-> "idle", study_topic_id |-> 0, value |-> 0]

NoLocks == [TASK_LOCK |-> FALSE, WEBSOCKET_LOCK |-> FALSE, both |-> FALSE]

NoPoll == [pc |-> "idle", task_id |-> 0, status |-> "none"]

NoResponse == [code |-> 0, task_id |-> 0, status |-> "none", result |-> "null"]

\* "with <lock>:" around statements without an await: the lock is acquired
\* (the thread would block for ever if it were held), and released when the
\* block is left, before the coroutine's next suspension point.
SectionHeld(l, name) ==
    [l EXCEPT ![name] = TRUE, !.both = @ \/ l.TASK_LOCK \/ l.WEBSOCKET_LOCK]
Section(l, name) ==
    [SectionHeld(l, name) EXCEPT ![name] = FALSE]

Init ==
    /\ TASK_STATUS = [u \in Units |-> "none"]
    /\ statusLog = [u \in Units |-> <<>>]
    /\ BACKGROUND_TASKS = {}
    /\ SHUTDOWN_EVENT = FALSE
    /\ task_result = [u \in Units |-> "none"]
    /\ unit = [u \in Units |-> Idle]
    /\ nextId = 1
    /\ hooks = [u \in Units |-> NoHooks]
    /\ pcSeq = "running"
    /\ gathered = {}
    /\ live0 = {}
    /\ forced = FALSE
    /\ clock = 0
    /\ deadline = 0
    /\ WEBSOCKET_CONNECTIONS = {}
    /\ ws = [w \in Sockets |-> [pc |-> "new", failing |-> FALSE]]
    /\ bc = NoBroadcast
    /\ got = [w \in Sockets |-> 0]
    /\ events = [w \in Sockets |-> {}]
    /\ regAt = [u \in Units |-> {}]
    /\ poll = NoPoll
    /\ topic_rag_cache = [t \in Topics |-> 0]
    /\ lightrags = [t \in Topics |-> 0]
    /\ topic_rag = [u \in Units |-> NoCall]
    /\ resp = NoResponse
    /\ epoch = 0
    /\ finalized = 0
    /\ locks = NoLocks

\* ---- request handlers ----

\* TASK_STATUS[task_id] = "processing" under TASK_LOCK.
RegisterSkipped(reg, t) == reg
Register(reg, t) == [reg EXCEPT ![t] = "processing"]

\* upload_documents, process_webpage, process_youtube_video, query_rag_async,
\* interpret_image from the registry write to the return: no suspension point.
Dispatch(k, c, n) ==
    /\ ~Blocked
    /\ pcSeq \notin {"finalize", "complete"}
    /\ nextId <= MaxUnits
    /\ TASK_STATUS' = Register(TASK_STATUS, nextId)
    /\ statusLog' = [statusLog EXCEPT ![nextId] =
                        IF TASK_STATUS'[nextId] = "none" THEN @ ELSE Append(@, TASK_STATUS'[nextId])]
    /\ unit' = [unit EXCEPT ![nextId] =
                  [Idle EXCEPT !.kind = k, !.cb = c, !.pc = "start",
                               !.files = n]]
    /\ BACKGROUND_TASKS' = BACKGROUND_TASKS \cup {nextId}
    /\ nextId' = nextId + 1
    /\ ~locks.TASK_LOCK
    /\ locks' = Section(locks, "TASK_LOCK")
    /\ UNCHANGED <<wsVars, pollVars, ragVars, hooks, regAt, SHUTDOWN_EVENT, task_result, seqVars>>

\* Requests of every kind, MaxMixed of them.
Accept(k, c, n) ==
    /\ nextId <= MaxMixed
    /\ Dispatch(k, c, n)

\* One request of any kind, then queries without a callback URL that arrive
\* while the teardown is waiting.
AcceptDrain(k, c, n) ==
    /\ nextId > 1 => (k = "query" /\ ~c /\ pcSeq # "running")
    /\ Dispatch(k, c, n)

\* The study topic is validated before any task is created: HTTPException(404).
Reject ==
    /\ ~Blocked
    /\ pcSeq \notin {"finalize", "complete"}
    /\ UNCHANGED vars

\* ---- process_with_tracking ----

\* What the wrapper writes to TASK_STATUS[task_id] when the awaited
\* process_* call ends: by returning ("return", or "skip" at a shutdown
\* checkpoint), by raising an Exception, or by CancelledError, which
\* "except Exception" does not catch.
WrapperWritesDouble(o) ==
    IF o \in {"return", "skip"} THEN <<"done", "failed">>
    ELSE IF o = "raise" THEN <<"failed">> ELSE <<>>
WrapperWritesLost(o) ==
    IF o \in {"return", "skip"} THEN <<"done">> ELSE <<>>
WrapperWritesCatchAll(o) ==
    IF o \in {"return", "skip"} THEN <<"done">> ELSE <<"failed">>
WrapperWrites(o) ==
    IF o \in {"return", "skip"} THEN <<"done">>
    ELSE IF o = "raise" THEN <<"failed">> ELSE <<>>

OutcomeOf(target) ==
    CASE target = "RET" -> "return"
      [] target = "SKIP" -> "skip"
      [] target = "RAISE" -> "raise"
      [] target = "CANCEL" -> "cancel"

\* The unit u, whose record is now rec, goes on to target: a suspension
\* point, or the end of the coroutine (the wrapper's writes, task done; the
\* coroutine's arguments are gone with its frame).
Goto(u, target, rec) ==
    IF target \in {"RET", "SKIP", "RAISE", "CANCEL"}
    THEN LET w == WrapperWrites(OutcomeOf(target)) IN
         /\ unit' = [unit EXCEPT ![u] =
                        [rec EXCEPT !.pc = "finished", !.outcome = OutcomeOf(target),
                                    !.cb = FALSE, !.files = 0, !.cancel = FALSE]]
         /\ statusLog' = [statusLog EXCEPT ![u] = @ \o w]
         /\ TASK_STATUS' = [TASK_STATUS EXCEPT ![u] = IF w = <<>> THEN @ ELSE w[Len(w)]]
         /\ regAt' = [regAt EXCEPT ![u] = IF w = <<>> THEN @ ELSE WEBSOCKET_CONNECTIONS]
         /\ w # <<>> => ~locks.TASK_LOCK
         /\ locks' = IF w = <<>> THEN locks ELSE Section(locks, "TASK_LOCK")
    ELSE /\ unit' = [unit EXCEPT ![u] = [rec EXCEPT !.pc = target]]
         /\ UNCHANGED <<TASK_STATUS, statusLog, regAt, locks>>

\* ---- control flow of the process_* bodies ----

\* utils_async.py:133-137: the head of the per-file loop of an upload.
LoopHead(shut, files) ==
    IF files = 0 THEN "RET" ELSE IF shut THEN "SKIP" ELSE "sleep0"

\* The first suspension point of process_*: an upload awaits get_study_topic
\* (line 122) before its loop, the others check the event first.
BodyEntry(k, shut) ==
    IF k = "upload" THEN "topic" ELSE IF shut THEN "SKIP" ELSE "sleep0"

\* After "await asyncio.sleep(0)".
AfterSleep0(k, emptyId) ==
    IF k = "upload" THEN "work"
    ELSE IF k = "query" /\ emptyId THEN "early_save" ELSE "topic"

\* The end of the try block: next file of an upload, return otherwise.
BodyEnd(rec, shut) ==
    IF rec.kind = "upload" THEN LoopHead(shut, rec.files - 1) ELSE "RET"
EndRec(rec) ==
    IF rec.kind = "upload" THEN [rec EXCEPT !.files = @ - 1] ELSE rec

\* An exception inside the try block reaches the except clauses.
ErrorPath(rec, shut) ==
    IF Swallows(rec.kind)
    THEN IF rec.cb THEN "notify_err" ELSE BodyEnd(rec, shut)
    ELSE "save_failed"
ErrorRec(rec) ==
    IF Swallows(rec.kind) /\ ~rec.cb THEN EndRec(rec) ELSE rec

TopicCases(k) ==
    CASE k = "image" -> {"ok", "badext"}
      [] k = "query" -> {"ok", "notfound", "norag", "nokg"}
      [] OTHER -> {"ok"}

\* After the body's "await get_study_topic" returned.
AfterTopic(rec, c, shut) ==
    CASE rec.kind = "upload" -> LoopHead(shut, rec.files)
      [] c = "ok" -> "work"
      [] c = "badext" -> ErrorPath(rec, shut)
      [] c = "notfound" -> "early_save"
      [] c = "norag" -> "early_save_try"
      [] c = "nokg" -> ErrorPath(rec, shut)

\* After the content item was stored (or storing it failed and was logged).
AfterItem(rec, shut) ==
    IF rec.kind = "youtube" THEN "save"
    ELSE IF rec.cb THEN "notify" ELSE BodyEnd(rec, shut)
ItemRec(rec) ==
    IF rec.kind # "youtube" /\ ~rec.cb THEN EndRec(rec) ELSE rec

\* ---- steps of a unit ----

CanStep(u, p) == /\ unit[u].pc = p
                 /\ ~unit[u].cancel
                 /\ ~Blocked
                 /\ pcSeq # "complete"

Raised(rec) == [rec EXCEPT !.raised = TRUE]

\* The task's first step: process_with_tracking up to its first suspension.
Start(u) ==
    /\ CanStep(u, "start")
    /\ \/ Goto(u, "get_rag", unit[u])
       \/ Goto(u, BodyEntry(unit[u].kind, SHUTDOWN_EVENT), unit[u])
    /\ UNCHANGED <<wsVars, pollVars, ragVars, hooks, BACKGROUND_TASKS, SHUTDOWN_EVENT, task_result, nextId, seqVars>>

\* get_topic_rag returns (an instance or None), or get_study_topic raises.
GetRagDone(u) ==
    /\ CanStep(u, "get_rag")
    /\ \/ Goto(u, BodyEntry(unit[u].kind, SHUTDOWN_EVENT), unit[u])
       \/ Goto(u, "RAISE", Raised(unit[u]))
    /\ UNCHANGED <<wsVars, pollVars, ragVars, hooks, BACKGROUND_TASKS, SHUTDOWN_EVENT, task_result, nextId, seqVars>>

Sleep0Done(u) ==
    /\ CanStep(u, "sleep0")
    /\ \E e \in (IF unit[u].kind = "query" THEN BOOLEAN ELSE {FALSE}) :
          Goto(u, AfterSleep0(unit[u].kind, e), unit[u])
    /\ UNCHANGED <<wsVars, pollVars, ragVars, hooks, BACKGROUND_TASKS, SHUTDOWN_EVENT, task_result, nextId, seqVars>>

TopicDone(u) ==
    /\ CanStep(u, "topic")
    /\ \/ \E c \in TopicCases(unit[u].kind) :
             Goto(u, AfterTopic(unit[u], c, SHUTDOWN_EVENT),
                  IF c \in {"badext", "nokg"} THEN ErrorRec(unit[u]) ELSE unit[u])
       \/ Goto(u, "RAISE", Raised(unit[u]))
    /\ UNCHANGED <<wsVars, pollVars, ragVars, hooks, BACKGROUND_TASKS, SHUTDOWN_EVENT, task_result, nextId, seqVars>>

\* The conversion / vision call / transcript extraction / rag.query ends.
WorkDone(u) ==
    /\ unit[u].pc = "work"
    /\ ~unit[u].cancel
    /\ pcSeq # "complete"
    /\ SyncWork(unit[u].kind) \/ ~Blocked
    /\ \/ /\ unit[u].kind = "query"
          /\ Goto(u, "save", unit[u])
       \/ /\ unit[u].kind # "query"
          /\ \E ins \in BOOLEAN : Goto(u, IF ins THEN "insert" ELSE "item", unit[u])
       \/ Goto(u, ErrorPath(unit[u], SHUTDOWN_EVENT), Raised(ErrorRec(unit[u])))
    /\ UNCHANGED <<wsVars, pollVars, ragVars, hooks, BACKGROUND_TASKS, SHUTDOWN_EVENT, task_result, nextId, seqVars>>

InsertDone(u) ==
    /\ CanStep(u, "insert")
    /\ \/ Goto(u, "item", unit[u])
       \/ Goto(u, ErrorPath(unit[u], SHUTDOWN_EVENT), Raised(ErrorRec(unit[u])))
    /\ UNCHANGED <<wsVars, pollVars, ragVars, hooks, BACKGROUND_TASKS, SHUTDOWN_EVENT, task_result, nextId, seqVars>>

ItemDone(u) ==
    /\ CanStep(u, "item")
    /\ Goto(u, AfterItem(unit[u], SHUTDOWN_EVENT), ItemRec(unit[u]))
    /\ UNCHANGED <<wsVars, pollVars, ragVars, hooks, BACKGROUND_TASKS, SHUTDOWN_EVENT, task_result, nextId, seqVars>>

\* save_task_result(task_id, "done", ...) commits, or raises.
SaveDone(u) ==
    /\ CanStep(u, "save")
    /\ \/ /\ task_result' = [task_result EXCEPT ![u] = "done"]
          /\ Goto(u, IF unit[u].cb THEN "notify" ELSE "RET", unit[u])
       \/ /\ UNCHANGED task_result
          /\ Goto(u, "save_failed", [Raised(unit[u]) EXCEPT !.saveRaised = TRUE])
    /\ UNCHANGED <<wsVars, pollVars, ragVars, hooks, BACKGROUND_TASKS, SHUTDOWN_EVENT, nextId, seqVars>>

\* notify_callback: one POST, which is delivered or fails; the failure is
\* logged and nothing is raised to the caller.
Posted(h, ok) == [posts |-> h.posts + 1, failed |-> h.failed \/ ~ok]

\* Where the unit goes after its success notification, and with what record.
AfterNotifyPropagates(rec, shut, ok) ==
    IF ok THEN [pc |-> BodyEnd(rec, shut), rec |-> EndRec(rec)]
    ELSE [pc |-> ErrorPath(rec, shut), rec |-> ErrorRec(rec)]
AfterNotify(rec, shut, ok) ==
    [pc |-> BodyEnd(rec, shut), rec |-> EndRec(rec)]

NotifyDone(u) ==
    /\ CanStep(u, "notify")
    /\ \E ok \in BOOLEAN :
          /\ hooks' = [hooks EXCEPT ![u] = Posted(@, ok)]
          /\ LET n == AfterNotify(unit[u], SHUTDOWN_EVENT, ok) IN Goto(u, n.pc, n.rec)
    /\ UNCHANGED <<wsVars, pollVars, ragVars, BACKGROUND_TASKS, SHUTDOWN_EVENT, task_result, nextId, seqVars>>

\* save_task_result(task_id, "failed", ...) in an except clause.
SaveFailedDone(u) ==
    /\ CanStep(u, "save_failed")
    /\ \/ /\ task_result' = [task_result EXCEPT ![u] = "failed"]
          /\ Goto(u, IF unit[u].cb THEN "notify_err" ELSE "RAISE", unit[u])
       \/ /\ UNCHANGED task_result
          /\ Goto(u, "RAISE", Raised(unit[u]))
    /\ UNCHANGED <<wsVars, pollVars, ragVars, hooks, BACKGROUND_TASKS, SHUTDOWN_EVENT, nextId, seqVars>>

NotifyErrDone(u) ==
    /\ CanStep(u, "notify_err")
    /\ \E ok \in BOOLEAN : hooks' = [hooks EXCEPT ![u] = Posted(@, ok)]
    /\ IF Swallows(unit[u].kind)
       THEN Goto(u, BodyEnd(unit[u], SHUTDOWN_EVENT), EndRec(unit[u]))
       ELSE Goto(u, "RAISE", unit[u])
    /\ UNCHANGED <<wsVars, pollVars, ragVars, BACKGROUND_TASKS, SHUTDOWN_EVENT, task_result, nextId, seqVars>>

\* process_query_background's early exits: save a "failed" row, notify, return.
EarlySaveDone(u) ==
    /\ unit[u].pc \in {"early_save", "early_save_try"}
    /\ ~unit[u].cancel
    /\ ~Blocked
    /\ pcSeq # "complete"
    /\ \/ /\ task_result' = [task_result EXCEPT ![u] = "failed"]
          /\ Goto(u, IF unit[u].cb THEN "early_notify" ELSE "RET", unit[u])
       \/ /\ UNCHANGED task_result
          /\ Goto(u, IF unit[u].pc = "early_save" THEN "RAISE" ELSE "save_failed",
                  Raised(unit[u]))
    /\ UNCHANGED <<wsVars, pollVars, ragVars, hooks, BACKGROUND_TASKS, SHUTDOWN_EVENT, nextId, seqVars>>

EarlyNotifyDone(u) ==
    /\ CanStep(u, "early_notify")
    /\ \E ok \in BOOLEAN : hooks' = [hooks EXCEPT ![u] = Posted(@, ok)]
    /\ Goto(u, "RET", unit[u])
    /\ UNCHANGED <<wsVars, pollVars, ragVars, BACKGROUND_TASKS, SHUTDOWN_EVENT, task_result, nextId, seqVars>>

\* A requested cancellation is thrown into the coroutine at its suspension
\* point.  Nothing in the units catches it: inside an "async with" the exit
\* of the context is awaited first, elsewhere the task ends at once.
Cancelled(u) ==
    /\ unit[u].cancel
    /\ Live(u)
    /\ ~Blocked
    /\ pcSeq # "complete"
    /\ Goto(u, IF unit[u].pc \in AsyncWithPcs THEN "unwind" ELSE "CANCEL",
            [unit[u] EXCEPT !.cancel = FALSE])
    /\ UNCHANGED <<wsVars, pollVars, ragVars, hooks, BACKGROUND_TASKS, SHUTDOWN_EVENT, task_result, nextId, seqVars>>

Unwound(u) ==
    /\ CanStep(u, "unwind")
    /\ Goto(u, "CANCEL", unit[u])
    /\ UNCHANGED <<wsVars, pollVars, ragVars, hooks, BACKGROUND_TASKS, SHUTDOWN_EVENT, task_result, nextId, seqVars>>

\* cleanup_task, the done-callback: BACKGROUND_TASKS.discard(finished_task).
CleanupKeeps(set, u) == set
Cleanup(set, u) == set \ {u}

CleanupTask(u) ==
    /\ unit[u].pc = "finished"
    /\ ~Blocked
    /\ pcSeq # "complete"
    /\ BACKGROUND_TASKS' = Cleanup(BACKGROUND_TASKS, u)
    /\ unit' = [unit EXCEPT ![u].pc = "removed"]
    /\ UNCHANGED <<wsVars, pollVars, ragVars, locks, hooks, regAt, TASK_STATUS, statusLog, SHUTDOWN_EVENT, task_result, nextId, seqVars>>

\* The steps of a unit that is not cancelled.
UnitRuns(u) ==
    \/ Start(u) \/ GetRagDone(u) \/ Sleep0Done(u) \/ TopicDone(u) \/ WorkDone(u)
    \/ InsertDone(u) \/ ItemDone(u) \/ SaveDone(u) \/ NotifyDone(u)
    \/ SaveFailedDone(u) \/ NotifyErrDone(u) \/ EarlySaveDone(u) \/ EarlyNotifyDone(u)
    \/ CleanupTask(u)

UnitStep(u) ==
    \/ UnitRuns(u) \/ Cancelled(u) \/ Unwound(u)

\* ---- shutdown: signal_handler and the teardown of lifespan ----

\* signal_handler: SHUTDOWN_EVENT.set() on SIGINT / SIGTERM.
SignalHandler ==
    /\ pcSeq = "running"
    /\ SHUTDOWN_EVENT' = TRUE
    /\ UNCHANGED <<wsVars, pollVars, ragVars, locks, hooks, regAt, TASK_STATUS, statusLog, BACKGROUND_TASKS, task_result, unit, nextId, seqVars>>

\* The children of a gather that task.cancel() still reaches (not task.done()).
Cancellable(S) == {u \in S : ~TaskDone(u)}

\* Every child is done and its done-callbacks (cleanup_task, the gather's) ran.
GatherDone == \A u \in gathered : unit[u].pc = "removed"

CancelAll(S) == [u \in Units |-> IF u \in S THEN [unit[u] EXCEPT !.cancel = TRUE] ELSE unit[u]]

\* main.py:232-241: set the event; with no tracked unit skip the waits,
\* otherwise await wait_for(gather(*BACKGROUND_TASKS), timeout=5.0).
AlwaysWaits(tasks) == FALSE
NoBackgroundTasks(tasks) == tasks = {}

Teardown ==
    /\ pcSeq = "running"
    /\ ~Blocked
    /\ SHUTDOWN_EVENT' = TRUE
    /\ live0' = BACKGROUND_TASKS
    /\ IF NoBackgroundTasks(BACKGROUND_TASKS)
       THEN /\ pcSeq' = "finalize"
            /\ UNCHANGED <<gathered, deadline>>
       ELSE /\ pcSeq' = "wait1"
            /\ gathered' = BACKGROUND_TASKS
            /\ deadline' = clock + T1
    /\ UNCHANGED <<wsVars, pollVars, ragVars, locks, hooks, regAt, TASK_STATUS, statusLog, BACKGROUND_TASKS, task_result, unit, nextId,
                   forced, clock, finalized>>

\* The gather completed before the timeout: wait_for returns, the except
\* clause (and the clear inside it) is skipped.
Wait1DoneForces == {"wait2"}
Wait1DoneNext == {"finalize"}

Wait1Done ==
    /\ pcSeq = "wait1"
    /\ ~Blocked
    /\ GatherDone
    /\ pcSeq' \in Wait1DoneNext
    /\ UNCHANGED <<wsVars, pollVars, ragVars, locks, hooks, regAt, TASK_STATUS, statusLog, BACKGROUND_TASKS, SHUTDOWN_EVENT, task_result,
                   unit, nextId, gathered, live0, forced, clock, deadline, finalized>>

\* wait_for's timeout: it cancels the gather, which cancels every child that
\* is not done, and then awaits the cancelled gather.
Wait1Timeout ==
    /\ pcSeq = "wait1"
    /\ ~Blocked
    /\ clock >= deadline
    /\ Cancellable(gathered) # {}
    /\ unit' = CancelAll(Cancellable(gathered))
    /\ pcSeq' = "wait1_cancel"
    /\ UNCHANGED <<wsVars, pollVars, ragVars, locks, hooks, regAt, TASK_STATUS, statusLog, BACKGROUND_TASKS, SHUTDOWN_EVENT, task_result,
                   nextId, gathered, live0, forced, clock, deadline, finalized>>

\* main.py:246: the loop runs over BACKGROUND_TASKS.copy(), the set as it is
\* when the except clause starts, not the tasks the first gather was given.
SnapshotOfGathered(tasks, first) == first
Snapshot(tasks, first) == tasks

\* main.py:243-264: TimeoutError is raised once the cancelled gather is done.
\* task.cancel() for every task of BACKGROUND_TASKS.copy() that is not done;
\* a second wait_for(timeout=2.0) if there was one; BACKGROUND_TASKS.clear().
Wait1Cancelled ==
    /\ pcSeq = "wait1_cancel"
    /\ ~Blocked
    /\ GatherDone
    /\ forced' = TRUE
    /\ LET cancelled_tasks == Cancellable(Snapshot(BACKGROUND_TASKS, gathered)) IN
       /\ unit' = CancelAll(cancelled_tasks)
       /\ IF cancelled_tasks # {}
          THEN /\ pcSeq' = "wait2"
               /\ gathered' = cancelled_tasks
               /\ deadline' = clock + T2
               /\ UNCHANGED BACKGROUND_TASKS
          ELSE /\ pcSeq' = "finalize"
               /\ BACKGROUND_TASKS' = {}
               /\ UNCHANGED <<gathered, deadline>>
    /\ UNCHANGED <<wsVars, pollVars, ragVars, locks, hooks, regAt, TASK_STATUS, statusLog, SHUTDOWN_EVENT, task_result, nextId, live0, clock, finalized>>

Wait2Done ==
    /\ pcSeq = "wait2"
    /\ ~Blocked
    /\ GatherDone
    /\ pcSeq' = "finalize"
    /\ BACKGROUND_TASKS' = {}
    /\ UNCHANGED <<wsVars, pollVars, ragVars, locks, hooks, regAt, TASK_STATUS, statusLog, SHUTDOWN_EVENT, task_result, unit, nextId,
                   gathered, live0, forced, clock, deadline, finalized>>

Wait2Timeout ==
    /\ pcSeq = "wait2"
    /\ ~Blocked
    /\ clock >= deadline
    /\ Cancellable(gathered) # {}
    /\ unit' = CancelAll(Cancellable(gathered))
    /\ pcSeq' = "wait2_cancel"
    /\ UNCHANGED <<wsVars, pollVars, ragVars, locks, hooks, regAt, TASK_STATUS, statusLog, BACKGROUND_TASKS, SHUTDOWN_EVENT, task_result,
                   nextId, gathered, live0, forced, clock, deadline, finalized>>

\* main.py:260-264: "Some tasks still didn't respond", then the clear.
Wait2Cancelled ==
    /\ pcSeq = "wait2_cancel"
    /\ ~Blocked
    /\ GatherDone
    /\ pcSeq' = "finalize"
    /\ BACKGROUND_TASKS' = {}
    /\ UNCHANGED <<wsVars, pollVars, ragVars, locks, hooks, regAt, TASK_STATUS, statusLog, SHUTDOWN_EVENT, task_result, unit, nextId,
                   gathered, live0, forced, clock, deadline, finalized>>

\* main.py:266: "if rag:" follows the whole "if BACKGROUND_TASKS:" block, so
\* it is reached when that block is left, not inside its except clause.
FinalizePointsInExcept == {"finalize", "wait2"}
FinalizePoints == {"finalize"}

\* main.py:266-275: rag.finalize_storages(); lifespan always has a rag here,
\* a failed initialisation aborts the startup (main.py:213-215).
Finalize ==
    /\ pcSeq \in FinalizePoints
    /\ ~Blocked
    /\ pcSeq' = "complete"
    /\ finalized' = finalized + 1
    /\ UNCHANGED <<wsVars, pollVars, ragVars, locks, hooks, regAt, TASK_STATUS, statusLog, BACKGROUND_TASKS, SHUTDOWN_EVENT, task_result,
                   unit, nextId, gathered, live0, forced, clock, deadline>>

\* ---- time ----

Waiting == pcSeq \in {"wait1", "wait1_cancel", "wait2", "wait2_cancel"}

\* Work the loop can run now: a new task's first step, the wake-up after
\* sleep(0), a pending cancellation, a done-callback.
Ready(u) == \/ unit[u].pc \in {"start", "sleep0", "finished"}
            \/ unit[u].cancel /\ Live(u)

SeqReady == /\ Waiting
            /\ \/ GatherDone
               \/ /\ pcSeq \in {"wait1", "wait2"}
                  /\ clock >= deadline
                  /\ Cancellable(gathered) # {}

\* Time passes while the loop is idle or is kept by a synchronous call.
Tick ==
    /\ Waiting
    /\ clock < MaxClock
    /\ Blocked \/ (~SeqReady /\ \A u \in Units : ~Ready(u))
    /\ clock' = clock + 1
    /\ UNCHANGED <<wsVars, pollVars, ragVars, locks, hooks, regAt, TASK_STATUS, statusLog, BACKGROUND_TASKS, SHUTDOWN_EVENT, task_result,
                   unit, nextId, pcSeq, gathered, live0, forced, deadline, finalized>>

Next ==
    \/ \E k \in Kinds, c \in BOOLEAN :
          \E n \in (IF k = "upload" THEN 1..MaxFiles ELSE {0}) : Accept(k, c, n)
    \/ Reject
    \/ SignalHandler
    \/ Teardown
    \/ Wait1Done \/ Wait1Timeout \/ Wait1Cancelled
    \/ Wait2Done \/ Wait2Timeout \/ Wait2Cancelled
    \/ Finalize
    \/ Tick
    \/ \E u \in Units : UnitStep(u)

Spec == Init /\ [][Next]_vars

\* The same program with the mixed request limited to the first one, so
\* that requests arriving during both waits of the teardown are covered.
NextDrain ==
    \/ \E k \in Kinds, c \in BOOLEAN :
          \E n \in (IF k = "upload" THEN 1..MaxFiles ELSE {0}) : AcceptDrain(k, c, n)
    \/ Reject
    \/ SignalHandler
    \/ Teardown
    \/ Wait1Done \/ Wait1Timeout \/ Wait1Cancelled
    \/ Wait2Done \/ Wait2Timeout \/ Wait2Cancelled
    \/ Finalize
    \/ Tick
    \/ \E u \in Units : UnitStep(u)

SpecDrain == Init /\ [][NextDrain]_vars

\* What the event loop does by itself once it is free: the teardown's own
\* steps, a new task's first step, the wake-up after sleep(0), the delivery
\* of a requested cancellation, the exit of a context manager, a
\* done-callback, and the passing of time.  Whether a call into a
\* collaborator (database, converter, model, retrieval engine, webhook)
\* ever returns is not up to the loop.
LoopStep ==
    \/ Teardown
    \/ Wait1Done \/ Wait1Timeout \/ Wait1Cancelled
    \/ Wait2Done \/ Wait2Timeout \/ Wait2Cancelled
    \/ Finalize
    \/ Tick
    \/ \E u \in Units : Start(u) \/ Sleep0Done(u) \/ Cancelled(u) \/ Unwound(u) \/ CleanupTask(u)

SpecDrainFair == Init /\ [][NextDrain]_vars /\ WF_vars(LoopStep)

\* ---- the push channel: websocket_endpoint and broadcast_to_websockets ----

\* websocket.accept(), WEBSOCKET_CONNECTIONS.add(websocket), then the welcome
\* message is being sent.
Connect(w) ==
    /\ ws[w].pc = "new"
    /\ WEBSOCKET_CONNECTIONS' = WEBSOCKET_CONNECTIONS \cup {w}
    /\ ws' = [ws EXCEPT ![w].pc = "welcome"]
    /\ ~locks.WEBSOCKET_LOCK
    /\ locks' = Section(locks, "WEBSOCKET_LOCK")
    /\ UNCHANGED <<coreVars, pollVars, ragVars, bc, got, events>>

\* The handler's finally clause: WEBSOCKET_CONNECTIONS.discard(websocket).
HandlerEnds(w) ==
    /\ WEBSOCKET_CONNECTIONS' = WEBSOCKET_CONNECTIONS \ {w}
    /\ ws' = [ws EXCEPT ![w].pc = "closed"]
    /\ ~locks.WEBSOCKET_LOCK
    /\ locks' = Section(locks, "WEBSOCKET_LOCK")

\* The welcome or echo send_text returns or raises.
HandlerSent(w) ==
    /\ ws[w].pc \in {"welcome", "echo"}
    /\ IF ws[w].failing
       THEN HandlerEnds(w)
       ELSE ws' = [ws EXCEPT ![w].pc = "recv"] /\ UNCHANGED <<WEBSOCKET_CONNECTIONS, locks>>
    /\ UNCHANGED <<coreVars, pollVars, ragVars, bc, got, events>>

\* receive_text returns a client message: the echo is being sent.
Receive(w) ==
    /\ ws[w].pc = "recv"
    /\ ~ws[w].failing
    /\ ws' = [ws EXCEPT ![w].pc = "echo"]
    /\ UNCHANGED <<coreVars, pollVars, ragVars, locks, WEBSOCKET_CONNECTIONS, bc, got, events>>

\* receive_text raises WebSocketDisconnect or another error: break, finally.
Disconnect(w) ==
    /\ ws[w].pc = "recv"
    /\ HandlerEnds(w)
    /\ UNCHANGED <<coreVars, pollVars, ragVars, bc, got, events>>

\* The peer goes away without a close frame: every later send_text raises.
PeerDies(w) ==
    /\ ws[w].pc \in {"welcome", "recv", "echo"}
    /\ ~ws[w].failing
    /\ ws' = [ws EXCEPT ![w].failing = TRUE]
    /\ UNCHANGED <<coreVars, pollVars, ragVars, locks, WEBSOCKET_CONNECTIONS, bc, got, events>>

SendFails(w) == ws[w].failing \/ ws[w].pc = "closed"

\* main.py:348-354: return at once with no connection, otherwise iterate a
\* copy of the set.
Broadcast(message) ==
    /\ ~bc.active
    /\ IF WEBSOCKET_CONNECTIONS = {}
       THEN UNCHANGED <<bc, got>>
       ELSE /\ bc' = [active |-> TRUE, snap |-> WEBSOCKET_CONNECTIONS,
                      todo |-> WEBSOCKET_CONNECTIONS, disconnected |-> {}, raised |-> FALSE,
                      msg |-> message]
            /\ got' = [w \in Sockets |-> 0]
    /\ UNCHANGED <<coreVars, pollVars, ragVars, locks, WEBSOCKET_CONNECTIONS, ws, events>>

\* main.py:447-485: send_debug_websocket_notification, the only caller of
\* broadcast_to_websockets that is ever reached.
BroadcastStart == Broadcast(DebugMessage)

\* main.py:366-377: send_task_update, reached only through update_task_status
\* (main.py:379-385), which nothing in the repository calls: it is part of
\* no next-state relation.
TaskUpdate(task_id, status) ==
    [type |-> "task_update", task_id |-> task_id, status |-> status]

send_task_update(task_id, status) == Broadcast(TaskUpdate(task_id, status))

\* main.py:357-359: the except clause around send_text.
OnSendFailureAborts(b, w) == [b EXCEPT !.todo = {}, !.raised = TRUE]
OnSendFailureForgets(b, w) == [b EXCEPT !.todo = @ \ {w}]
OnSendFailure(b, w) == [b EXCEPT !.todo = @ \ {w}, !.disconnected = @ \cup {w}]

\* main.py:361-364: discard() of every failed connection from the set as it
\* is now, not from the copy the loop ran over; skipped when the loop raised.
RemoveDisconnectedFromCopy(set, b) ==
    IF b.raised THEN set ELSE b.snap \ b.disconnected
RemoveDisconnected(set, b) ==
    IF b.raised THEN set ELSE set \ b.disconnected

\* One "await websocket.send_text" of the loop ends; after the last one the
\* connections that failed are discarded under WEBSOCKET_LOCK.
BroadcastSend(w) ==
    /\ bc.active
    /\ w \in bc.todo
    /\ LET b == IF SendFails(w) THEN OnSendFailure(bc, w)
                ELSE [bc EXCEPT !.todo = @ \ {w}] IN
       /\ got' = IF SendFails(w) THEN got ELSE [got EXCEPT ![w] = @ + 1]
       /\ events' = IF SendFails(w) \/ bc.msg.type # "task_update" THEN events
                    ELSE [events EXCEPT ![w] = @ \cup {bc.msg}]
       /\ IF b.todo = {}
          THEN /\ bc' = [b EXCEPT !.active = FALSE]
               /\ WEBSOCKET_CONNECTIONS' = RemoveDisconnected(WEBSOCKET_CONNECTIONS, b)
               /\ ~b.raised => ~locks.WEBSOCKET_LOCK
               /\ locks' = IF b.raised THEN locks ELSE Section(locks, "WEBSOCKET_LOCK")
          ELSE /\ bc' = b
               /\ UNCHANGED <<WEBSOCKET_CONNECTIONS, locks>>
    /\ UNCHANGED <<coreVars, pollVars, ragVars, ws>>

NextWS ==
    \/ \E w \in Sockets : Connect(w)
    \/ \E w \in Sockets : HandlerSent(w)
    \/ \E w \in Sockets : Receive(w)
    \/ \E w \in Sockets : Disconnect(w)
    \/ \E w \in Sockets : PeerDies(w)
    \/ BroadcastStart
    \/ \E w \in Sockets : BroadcastSend(w)

SpecWS == Init /\ [][NextWS]_vars

\* ---- GET /task-status/{task_id} ----

\* The body of the answer: the in-memory status as read, and the durable
\* row's result and processing time only "if result and status == 'done'".
StatusResponseAnyRow(t, status, row) ==
    [code |-> 200, task_id |-> t, status |-> status,
     result |-> IF row # "none" THEN row ELSE "null"]

StatusResponse(t, status, row) ==
    [code |-> 200, task_id |-> t, status |-> status,
     result |-> IF row # "none" /\ status = "done" THEN row ELSE "null"]

\* HTTPException(status_code=404, detail="Task ID not found")
NotFound(t) == [code |-> 404, task_id |-> t, status |-> "none", result |-> "null"]

\* get_task_status_combined when nothing runs between its two steps.
PollResponse(t) ==
    IF TASK_STATUS[t] = "none"
    THEN NotFound(t)
    ELSE StatusResponse(t, TASK_STATUS[t], task_result[t])

\* get_task_status_combined up to "await fetch_task_result": the status is
\* read under TASK_LOCK; None ends the request with 404.
PollStart(t) ==
    /\ ~Blocked
    /\ poll.pc = "idle"
    /\ resp = NoResponse
    /\ ~locks.TASK_LOCK
    /\ locks' = Section(locks, "TASK_LOCK")
    /\ IF TASK_STATUS[t] = "none"
       THEN resp' = NotFound(t) /\ UNCHANGED poll
       ELSE /\ poll' = [pc |-> "fetch", task_id |-> t, status |-> TASK_STATUS[t]]
            /\ UNCHANGED resp
    /\ UNCHANGED <<coreVars, wsVars, ragVars, epoch>>

\* fetch_task_result returns and the answer is built from the status read
\* before the await.
PollEnd ==
    /\ ~Blocked
    /\ poll.pc = "fetch"
    /\ resp' = StatusResponse(poll.task_id, poll.status, task_result[poll.task_id])
    /\ poll' = NoPoll
    /\ UNCHANGED <<coreVars, wsVars, ragVars, locks, epoch>>

\* The answer has left the server; the client may ask again.
ResponseSent ==
    /\ resp # NoResponse
    /\ resp' = NoResponse
    /\ UNCHANGED <<coreVars, wsVars, ragVars, locks, poll, epoch>>

\* The process ends and a new one starts: every module-level object of
\* main.py is created again, tasks.db is kept (init_db creates the table
\* only "IF NOT EXISTS"), task ids are uuid4 values and never come back.
Restart ==
    /\ epoch < MaxRestarts
    /\ epoch' = epoch + 1
    /\ TASK_STATUS' = [u \in Units |-> "none"]
    /\ statusLog' = [u \in Units |-> <<>>]
    /\ BACKGROUND_TASKS' = {}
    /\ SHUTDOWN_EVENT' = FALSE
    /\ unit' = [u \in Units |-> Idle]
    /\ regAt' = [u \in Units |-> {}]
    /\ pcSeq' = "running"
    /\ gathered' = {}
    /\ live0' = {}
    /\ forced' = FALSE
    /\ clock' = 0
    /\ deadline' = 0
    /\ WEBSOCKET_CONNECTIONS' = {}
    /\ ws' = [w \in Sockets |-> [pc |-> "new", failing |-> FALSE]]
    /\ bc' = NoBroadcast
    /\ got' = [w \in Sockets |-> 0]
    /\ poll' = NoPoll
    /\ resp' = NoResponse
    /\ finalized' = 0
    /\ locks' = NoLocks
    /\ topic_rag_cache' = [t \in Topics |-> 0]
    /\ lightrags' = [t \in Topics |-> 0]
    /\ topic_rag' = [u \in Units |-> NoCall]
    /\ UNCHANGED <<task_result, nextId, hooks, events>>

\* One request of any kind in each life of the process.
AcceptEpoch(k, c, n) ==
    /\ nextId <= epoch + 1
    /\ Dispatch(k, c, n)

\* Normal operation with polling clients and restarts; no shutdown signal.
NextPoll ==
    \/ \E k \in Kinds, c \in BOOLEAN :
          \E n \in (IF k = "upload" THEN 1..MaxFiles ELSE {0}) : AcceptEpoch(k, c, n)
    \/ \E u \in Units : UnitRuns(u)
    \/ \E t \in Units : PollStart(t)
    \/ PollEnd
    \/ ResponseSent
    \/ Restart

SpecPoll == Init /\ [][NextPoll]_vars

\* ---- units and push-channel subscribers together ----

\* Normal operation: one request of any kind, its unit, and subscribers that
\* connect, disconnect, die and are sent debug notifications.
NextPush ==
    \/ \E k \in Kinds, c \in BOOLEAN :
          \E n \in (IF k = "upload" THEN 1..MaxFiles ELSE {0}) : AcceptEpoch(k, c, n)
    \/ \E u \in Units : UnitRuns(u)
    \/ \E w \in 1..MaxWatchers : Connect(w)
    \/ \E w \in Sockets : HandlerSent(w)
    \/ \E w \in Sockets : Receive(w)
    \/ \E w \in Sockets : Disconnect(w)
    \/ \E w \in Sockets : PeerDies(w)
    \/ BroadcastStart
    \/ \E w \in Sockets : BroadcastSend(w)

SpecPush == Init /\ [][NextPush]_vars

\* ---- properties ----

\* C1: a task whose id was returned by an accepting endpoint, or whose unit
\* has run, has a registry entry; the entry is "processing" until the unit's
\* first step, and "processing" is the first value ever written for it.
C1_RegisteredBeforeUnitRuns ==
    \A u \in Units :
        unit[u].pc # "idle" =>
            /\ TASK_STATUS[u] # "none"
            /\ PollResponse(u).code = 200
            /\ unit[u].pc = "start" => TASK_STATUS[u] = "processing"
            /\ Len(statusLog[u]) >= 1 /\ statusLog[u][1] = "processing"

C1_Witness ==
    \E u \in Units : unit[u].pc \in {"get_rag", "sleep0"} /\ TASK_STATUS[u] = "processing"

\* C2: the values written to a task's in-memory status form a prefix of
\* (processing, done) or of (processing, failed), whatever units, shutdown
\* and polling do in between; the registry holds the last value written.
C2_StatusSequence ==
    \A u \in Units :
        /\ statusLog[u] \in {<<>>, <<"processing">>, <<"processing", "done">>,
                             <<"processing", "failed">>}
        /\ TASK_STATUS[u] = IF statusLog[u] = <<>> THEN "none"
                            ELSE statusLog[u][Len(statusLog[u])]

C2_Witness ==
    /\ pcSeq # "running"
    /\ \E u, v \in Units : /\ statusLog[u] = <<"processing", "done">>
                           /\ statusLog[v] = <<"processing", "failed">>

\* C3: a task whose unit saw a collaborator call raise never ends "done".
C3_CollaboratorErrorFails ==
    \A u \in Units : unit[u].raised => TASK_STATUS[u] # "done"

\* C4: with no shutdown in progress, a unit that has finished left its task
\* terminal: polling shows "done" if process_* returned and "failed" if it
\* raised, and never "processing".
C4_FinishedUnitsAreTerminal ==
    (pcSeq = "running" /\ ~SHUTDOWN_EVENT) =>
        \A u \in Units :
            TaskDone(u) =>
                /\ PollResponse(u).status \in {"done", "failed"}
                /\ unit[u].outcome = "return" => PollResponse(u).status = "done"
                /\ unit[u].outcome = "raise" => PollResponse(u).status = "failed"

C4_Witness ==
    /\ pcSeq = "running" /\ ~SHUTDOWN_EVENT
    /\ nextId > MaxMixed
    /\ \A u \in Units : unit[u].pc # "idle" => TaskDone(u)
    /\ \E u, v \in Units :
          /\ unit[u].outcome = "return" /\ ~unit[u].raised /\ PollResponse(u).status = "done"
          /\ unit[v].outcome = "raise" /\ unit[v].raised /\ PollResponse(v).status = "failed"

\* C5 as stated: a unit's handle is in BACKGROUND_TASKS from dispatch until
\* the unit completes, is absent once its done-callback ran, and the set is
\* empty when no unit is running.
C5_HandleTracked ==
    /\ \A u \in Units : Live(u) => u \in BACKGROUND_TASKS
    /\ \A u \in Units : unit[u].pc = "removed" => u \notin BACKGROUND_TASKS
    /\ (\A u \in Units : unit[u].pc \in {"idle", "removed"}) => BACKGROUND_TASKS = {}

\* C5 amended: the handle of a unit that has not completed is in
\* BACKGROUND_TASKS unless the teardown's TimeoutError handler has cleared
\* the set; it is absent once the done-callback ran; the set is empty when
\* no unit is running.
C5_HandleTrackedUntilCleared ==
    /\ \A u \in Units :
          (Live(u) \/ unit[u].pc = "finished") =>
              \/ u \in BACKGROUND_TASKS
              \/ forced /\ pcSeq \in {"finalize", "complete"}
    /\ \A u \in Units : unit[u].pc = "removed" => u \notin BACKGROUND_TASKS
    /\ (\A u \in Units : unit[u].pc \in {"idle", "removed"}) => BACKGROUND_TASKS = {}

C5_Witness ==
    /\ forced
    /\ BACKGROUND_TASKS = {}
    /\ \E u, v \in Units : /\ unit[u].pc = "removed" /\ unit[u].outcome = "cancel"
                           /\ Live(v)

\* A cancellation was requested for u, is being unwound, or ended its task.
CancelSeen(u) == unit[u].cancel \/ unit[u].pc = "unwind" \/ unit[u].outcome = "cancel"

\* The teardown is in, or went through, the TimeoutError handler.
OnForcedPath == pcSeq \in {"wait1_cancel", "wait2", "wait2_cancel"} \/ forced

\* C6: while the teardown has not left its two waits, at most T1 + T2 time
\* units have passed since it started.
C6_TerminatedWithinT1T2 ==
    Waiting => clock <= T1 + T2

C8_EmptySetSkipsWaits ==
    (pcSeq # "running" /\ live0 = {}) =>
        /\ pcSeq \in {"finalize", "complete"}
        /\ clock = 0
        /\ ~OnForcedPath
        /\ \A u \in Units : ~CancelSeen(u)

C8_Witness ==
    /\ pcSeq = "complete"
    /\ live0 = {}
    /\ \E u \in Units : unit[u].pc = "removed"

\* C9: the teardown enters the TimeoutError handler, and a unit receives
\* task.cancel(), only from the first wait, at or after T1, with a unit that
\* was live when the teardown started still not done; when all of them are
\* done within T1 there is no cancellation and no second wait.
C9_NoForceWhenDoneWithinT1 ==
    [][(~OnForcedPath /\ (OnForcedPath' \/ \E u \in Units : CancelSeen(u)')) =>
          /\ pcSeq = "wait1"
          /\ clock >= T1
          /\ \E u \in live0 : ~TaskDone(u)]_vars

C9_Witness ==
    /\ pcSeq = "complete"
    /\ live0 # {}
    /\ clock > 0 /\ clock < T1
    /\ ~OnForcedPath
    /\ \A u \in Units : ~CancelSeen(u)
    /\ \A u \in live0 : unit[u].pc = "removed"

\* C10: once a broadcast over a non-empty snapshot has returned, no
\* exception left it, every subscriber of the snapshot whose send failed got
\* nothing and is out of WEBSOCKET_CONNECTIONS, and every other subscriber
\* of the snapshot was sent the event exactly once and is still registered
\* unless its own handler has ended; while it runs nobody is sent it twice.
C10_BroadcastIsolatesFailure ==
    /\ \A w \in Sockets : got[w] <= 1
    /\ (~bc.active /\ bc.snap # {}) =>
          /\ ~bc.raised
          /\ \A w \in bc.disconnected : got[w] = 0 /\ w \notin WEBSOCKET_CONNECTIONS
          /\ \A w \in bc.snap \ bc.disconnected :
                /\ got[w] = 1
                /\ ws[w].pc # "closed" => w \in WEBSOCKET_CONNECTIONS

C10_Witness ==
    /\ ~bc.active
    /\ bc.snap = Sockets
    /\ \E f \in Sockets :
          /\ bc.disconnected = {f}
          /\ ws[f].failing /\ ws[f].pc # "closed"
          /\ WEBSOCKET_CONNECTIONS = Sockets \ {f}
          /\ \A w \in Sockets \ {f} : got[w] = 1 /\ ~ws[w].failing

\* C11: once a webhook POST of a task has failed, its durable row is not
\* written again, and when its unit ends other than by cancellation the
\* task is terminal, and is "done" whenever the unit is of a kind that
\* handles its own errors or had saved a "done" row: the status the task
\* reaches when the POST is delivered.
C11_WebhookFailureKeepsStatus ==
    [][\A u \in Units :
          hooks'[u].failed =>
              /\ hooks[u].failed => task_result'[u] = task_result[u]
              /\ (TaskDone(u)' /\ unit'[u].outcome # "cancel") =>
                    /\ TASK_STATUS'[u] \in {"done", "failed"}
                    /\ (Swallows(unit'[u].kind) \/ task_result'[u] = "done") =>
                          TASK_STATUS'[u] = "done"]_vars

C11_Witness ==
    \E u, v \in Units :
        /\ hooks[u].failed /\ hooks[u].posts = 1 /\ unit[u].kind = "query"
        /\ TaskDone(u) /\ TASK_STATUS[u] = "done" /\ task_result[u] = "done"
        /\ hooks[v].failed /\ unit[v].kind = "youtube"
        /\ TaskDone(v) /\ TASK_STATUS[v] = "failed" /\ task_result[v] = "failed"

\* C16: no task has more than one webhook POST attempted for it.
C16_AtMostOnePost ==
    \A u \in Units : hooks[u].posts <= 1

\* C12: when a task is terminal and its unit has ended, so that nothing is
\* left that would write the task's row, the durable store holds a
\* task_result row for it with the in-memory terminal status.
C12_DurableRowMatches ==
    \A u \in Units :
        (TaskDone(u) /\ TASK_STATUS[u] \in {"done", "failed"}) =>
            task_result[u] = TASK_STATUS[u]

\* C13: GET /task-status answers 404 exactly when the registry has no entry
\* for the id; otherwise it answers with a status that was written to the
\* registry for that task, with a null result unless that status is "done"
\* (whatever the durable store holds), and with the stored row when the
\* status is "done" and a row exists.
C13_StatusAnswer ==
    [][(resp = NoResponse /\ resp' # NoResponse) =>
          LET r == resp'
              t == r.task_id IN
            /\ r.code \in {200, 404}
            /\ r.code = 404 <=> TASK_STATUS[t] = "none"
            /\ r.code = 404 => (r.status = "none" /\ r.result = "null")
            /\ r.code = 200 =>
                  /\ \E i \in 1..Len(statusLog[t]) : statusLog[t][i] = r.status
                  /\ r.status # "done" => r.result = "null"
                  /\ (r.status = "done" /\ task_result[t] # "none") =>
                        r.result = task_result[t]]_vars

C13_Witness ==
    /\ resp.code = 200 /\ resp.status = "processing" /\ resp.result = "null"
    /\ task_result[resp.task_id] = "done"
    /\ TASK_STATUS[resp.task_id] = "done"

\* C14: after a restart, the answer for a task that the previous process
\* saved durably carries the stored status and result.
C14_DurableTaskSurvivesRestart ==
    (/\ epoch > 0 /\ resp # NoResponse
     /\ statusLog[resp.task_id] = <<>>
     /\ task_result[resp.task_id] # "none") =>
        /\ resp.code = 200
        /\ resp.status = task_result[resp.task_id]
        /\ resp.result = task_result[resp.task_id]

\* C15: once a task is terminal and its unit has ended, every subscriber
\* that was registered at the terminal transition and is still connected
\* and healthy has been sent the task-state event (task_id, status).
C15_TerminalEventPushed ==
    \A u \in Units : \A w \in regAt[u] :
        (/\ TaskDone(u) /\ TASK_STATUS[u] \in {"done", "failed"}
         /\ ~bc.active
         /\ w \in WEBSOCKET_CONNECTIONS /\ ws[w].pc = "recv" /\ ~ws[w].failing) =>
            TaskUpdate(u, TASK_STATUS[u]) \in events[w]

\* C18: when the first wait times out, every unit the gather was given that
\* is not done is cancelled with it, and the step that follows the timeout
\* requests cancellation of every unit of BACKGROUND_TASKS that is not done
\* at that moment, units dispatched after the teardown began included.
C18_ForceCancelsEveryLiveUnit ==
    [][/\ (pcSeq = "wait1" /\ pcSeq' = "wait1_cancel") =>
             \A u \in gathered : ~TaskDone(u) => unit'[u].cancel
       /\ (pcSeq = "wait1_cancel" /\ pcSeq' # "wait1_cancel") =>
             \A u \in BACKGROUND_TASKS : ~TaskDone(u) =>
                 (unit'[u].cancel /\ pcSeq' = "wait2" /\ u \in gathered')]_vars

C18_Witness ==
    /\ pcSeq = "wait2"
    /\ \E u \in gathered : u \notin live0 /\ unit[u].cancel /\ Live(u)

\* C19: when the teardown has ended its waits, on the drained and on the
\* forced path, BACKGROUND_TASKS is empty.
C19_EmptyWhenTerminated ==
    pcSeq \in {"finalize", "complete"} => BACKGROUND_TASKS = {}

\* The phase of the shutdown sequencer: Running 0, Draining 1 (the first
\* wait_for, until it raises or returns), ForceCancelling 2 (the except
\* clause and its wait_for), Terminated 3.
PhaseRank(pc) ==
    CASE pc = "running" -> 0
      [] pc \in {"wait1", "wait1_cancel"} -> 1
      [] pc \in {"wait2", "wait2_cancel"} -> 2
      [] OTHER -> 3

\* C17, order: the phase never moves backwards, and the except clause is
\* entered only from the first wait, at least T1 after the teardown began,
\* after a timeout that found a unit of the gather not done.
C17_PhaseOrder ==
    [][/\ PhaseRank(pcSeq') >= PhaseRank(pcSeq)
       /\ (pcSeq' = "wait1_cancel" /\ pcSeq # "wait1_cancel") =>
             (pcSeq = "wait1" /\ clock >= T1 /\ Cancellable(gathered) # {})
       /\ ((forced' /\ ~forced) \/ (PhaseRank(pcSeq') = 2 /\ PhaseRank(pcSeq) # 2)) =>
             (pcSeq = "wait1_cancel" /\ clock >= T1)]_vars

\* C17, progress: once the teardown has begun, the sequencer reaches
\* Terminated.
C17_TerminatedReached ==
    (pcSeq # "running") ~> (PhaseRank(pcSeq) = 3)

\* C20: rag.finalize_storages() is called at most once in a shutdown, never
\* while the teardown is in one of its waits; a call is made only when the
\* waits are over, and a completed teardown has made exactly one call, on
\* the drained path and on the forced path.
C20_FinalizedOnceAfterWaits ==
    [][/\ finalized' \in {finalized, finalized + 1}
       /\ finalized' <= 1
       /\ Waiting' => finalized' = 0
       /\ finalized' # finalized =>
             (~Waiting /\ PhaseRank(pcSeq) = 3 /\ finalized = 0 /\ pcSeq' = "complete")
       /\ pcSeq' = "complete" => finalized' = 1]_vars

C20_Witness ==
    /\ pcSeq = "complete" /\ finalized = 1 /\ forced
    /\ \E u \in Units : u \in live0 /\ CancelSeen(u)

C20_WitnessDrained ==
    /\ pcSeq = "complete" /\ finalized = 1 /\ ~forced /\ live0 # {}

\* The suspension points at which a unit is inside a major phase: the
\* conversion / extraction / model call, the retrieval-engine insert, the
\* storing of the content item, the storing of the task result.
MajorPhasePcs == {"work", "insert", "item", "save"}

\* C21: no unit starts a major phase in a state where SHUTDOWN_EVENT is
\* already set.
C21_NoPhaseStartsAfterSignal ==
    [][\A u \in Units :
          ~(/\ SHUTDOWN_EVENT
            /\ unit'[u].pc \in MajorPhasePcs
            /\ unit'[u].pc # unit[u].pc)]_vars

\* C22: a unit whose work succeeded and whose save_task_result(task_id,
\* "done", ...) then raised ends with the in-memory status "done", unless it
\* was cancelled.
C22_SaveFailureKeepsDone ==
    \A u \in Units :
        (TaskDone(u) /\ unit[u].saveRaised /\ unit[u].outcome # "cancel") =>
            TASK_STATUS[u] = "done"

\* C23: a connection enters WEBSOCKET_CONNECTIONS only by the handler's own
\* add() at connect; every member's handler is between its add() and its
\* finally clause; a connection whose handler has ended is not a member,
\* whatever a broadcast that still holds it in its copy does; and when a
\* broadcast has ended, the connections whose send failed are not members.
C23_MemberOnlyWhileHandlerRuns ==
    [][\A w \in Sockets :
          /\ (w \in WEBSOCKET_CONNECTIONS' /\ w \notin WEBSOCKET_CONNECTIONS) =>
                (ws[w].pc = "new" /\ ws'[w].pc = "welcome")
          /\ w \in WEBSOCKET_CONNECTIONS' => ws'[w].pc \in {"welcome", "recv", "echo"}
          /\ ws'[w].pc = "closed" => w \notin WEBSOCKET_CONNECTIONS'
          /\ (~bc'.active /\ w \in bc'.disconnected) => w \notin WEBSOCKET_CONNECTIONS']_vars

C23_Witness ==
    /\ ~bc.active
    /\ \E w, v \in bc.snap :
          /\ ws[w].pc = "closed" /\ got[w] = 0 /\ w \in bc.disconnected
          /\ w \notin WEBSOCKET_CONNECTIONS
          /\ v \in WEBSOCKET_CONNECTIONS /\ got[v] = 1

\* C24: while a unit is inside its collaborator call, a task that is ready
\* to take its first step can take it, and the teardown can begin.
C24_CallsDoNotHoldTheLoop ==
    \A u \in Units :
        unit[u].pc = "work" =>
            /\ \A v \in Units :
                  (unit[v].pc = "start" /\ ~unit[v].cancel /\ pcSeq # "complete") =>
                      ENABLED Start(v)
            /\ pcSeq = "running" => ENABLED Teardown

\* The position of a suspension point in the order conversion, insertion,
\* content item, task result, notification (0: none of them).
PhaseOf(pc) ==
    CASE pc = "work" -> 1
      [] pc = "insert" -> 2
      [] pc = "item" -> 3
      [] pc = "save" -> 4
      [] pc = "notify" -> 5
      [] OTHER -> 0

\* C25: a unit goes from one phase only to a later one, and starts no
\* conversion, insertion or persistence once a webhook notification of its
\* task has been attempted.
C25_PhasesInOrder ==
    [][\A u \in Units :
          (unit'[u].pc # unit[u].pc /\ PhaseOf(unit'[u].pc) > 0) =>
              /\ PhaseOf(unit'[u].pc) > PhaseOf(unit[u].pc)
              /\ PhaseOf(unit'[u].pc) < 5 => hooks[u].posts = 0]_vars

\* C26: at every suspension point of every coroutine TASK_LOCK and
\* WEBSOCKET_LOCK are both free, and at no acquisition of one of them was
\* either of them held; so no step that needs a lock ever finds it taken.
C26_LocksFreeAtSuspension ==
    /\ ~locks.TASK_LOCK
    /\ ~locks.WEBSOCKET_LOCK
    /\ ~locks.both

C26_Witness ==
    /\ \E u \in Units : TaskDone(u) /\ TASK_STATUS[u] \in {"done", "failed"}
    /\ ~bc.active
    /\ \E w \in bc.disconnected : ws[w].pc = "closed"
    /\ \E v \in WEBSOCKET_CONNECTIONS : ws[v].pc = "recv"
    /\ locks = NoLocks

\* C27: a task whose unit returned at a shutdown checkpoint without doing
\* its work is not "done".
C27_SkippedIsNotDone ==
    \A u \in Units : unit[u].outcome = "skip" => TASK_STATUS[u] # "done"

\* C28: a query task that is "done" in memory has no durable row other
\* than a "done" one, so the answer to a poll never carries a "failed" row
\* as the result of a "done" task.
C28_DoneQueryHasDoneRow ==
    \A u \in Units :
        (unit[u].kind = "query" /\ TASK_STATUS[u] = "done") =>
            /\ task_result[u] \in {"none", "done"}
            /\ PollResponse(u).result \in {"null", "done"}

\* The suspension points inside notify_callback: the POST is on its way.
NotifyPcs == {"notify", "notify_err", "early_notify"}

\* C29: from the moment the webhook POST of a query or YouTube task is
\* attempted, a poll of that task no longer answers "processing".
C29_RegistryWrittenBeforeWebhook ==
    \A u \in Units :
        (/\ unit[u].kind \in {"query", "youtube"}
         /\ unit[u].pc \in NotifyPcs \/ hooks[u].posts > 0) =>
            PollResponse(u).status # "processing"
\* ---- get_topic_rag and its cache ----

Returned(c, v) == [c EXCEPT !.pc = "ret", !.value = v]

\* process_with_tracking calls get_topic_rag: the membership test, then
\* either the cached instance or the suspension in get_study_topic.
GetTopicRag(u, t) ==
    /\ topic_rag[u].pc = "idle"
    /\ topic_rag' = [topic_rag EXCEPT ![u] =
            IF topic_rag_cache[t] # 0
            THEN Returned([@ EXCEPT !.study_topic_id = t], topic_rag_cache[t])
            ELSE [@ EXCEPT !.pc = "get_study_topic", !.study_topic_id = t]]
    /\ UNCHANGED <<coreVars, wsVars, pollVars, locks, topic_rag_cache, lightrags>>

\* get_study_topic returns: no row, or the knowledge graph disabled, ends
\* the call with None; otherwise LightRAG(...) is constructed and the call
\* is suspended in initialize_storages.
TopicRead(u, usable) ==
    /\ topic_rag[u].pc = "get_study_topic"
    /\ LET t == topic_rag[u].study_topic_id IN
       IF usable
       THEN /\ lightrags' = [lightrags EXCEPT ![t] = @ + 1]
            /\ topic_rag' = [topic_rag EXCEPT ![u].pc = "initialize_storages",
                                              ![u].value = lightrags[t] + 1]
       ELSE /\ topic_rag' = [topic_rag EXCEPT ![u] = Returned(@, 0)]
            /\ UNCHANGED lightrags
    /\ UNCHANGED <<coreVars, wsVars, pollVars, locks, topic_rag_cache>>

\* initialize_storages returns and the instance is written to the cache and
\* returned, or it raises and the except clause returns None.
StoragesInitialized(u, ok) ==
    /\ topic_rag[u].pc = "initialize_storages"
    /\ LET t == topic_rag[u].study_topic_id IN
       IF ok
       THEN /\ topic_rag_cache' = [topic_rag_cache EXCEPT ![t] = topic_rag[u].value]
            /\ topic_rag' = [topic_rag EXCEPT ![u].pc = "ret"]
       ELSE /\ topic_rag' = [topic_rag EXCEPT ![u] = Returned(@, 0)]
            /\ UNCHANGED topic_rag_cache
    /\ UNCHANGED <<coreVars, wsVars, pollVars, locks, lightrags>>

NextRag ==
    \/ \E u \in Units, t \in Topics : GetTopicRag(u, t)
    \/ \E u \in Units, usable \in BOOLEAN : TopicRead(u, usable)
    \/ \E u \in Units, ok \in BOOLEAN : StoragesInitialized(u, ok)

SpecRag == Init /\ [][NextRag]_vars

\* C30: for every study topic at most one retrieval-engine instance is ever
\* constructed, and all units of the topic that were handed an instance
\* were handed the same one.
C30_OneInstancePerTopic ==
    /\ \A t \in Topics : lightrags[t] <= 1
    /\ \A u, v \in Units :
        (/\ topic_rag[u].pc = "ret" /\ topic_rag[v].pc = "ret"
         /\ topic_rag[u].study_topic_id = topic_rag[v].study_topic_id
         /\ topic_rag[u].value # 0 /\ topic_rag[v].value # 0) =>
            topic_rag[u].value = topic_rag[v].value
====
